---- MODULE Spec2Model ----
(***************************************************************************)
(* DP-PDS: PCSA distinct-count sketches (DP_PDS/sketches/pcsa.py), the     *)
(* randomized-response mechanisms RRT and GRR (DP_PDS/dp/rrt.py) and the   *)
(* per-category pipeline PrivSketch (DP_PDS/priv_sketch.py).               *)
(*                                                                         *)
(* Six specifications share the variables:                                 *)
(*   SpecPCSA      one PCSA object under add() and count()                 *)
(*   SpecUnion     PCSA.union() applied to lists of PCSA objects           *)
(*   SpecDP        a DP mechanism under dp() and get_cardinality()         *)
(*   Spec          a PrivSketch under count_dp() and                       *)
(*                 get_estimated_cardinality()                             *)
(*   SpecPrivUnion a PrivSketch under union() and add() on its sketches    *)
(*   SpecInit      the constructors of PCSA, RRT, GRR and PrivSketch       *)
(*                                                                         *)
(* Numbers.  Python floats are modelled by exact rationals <<num, den>>.   *)
(* math.exp(epsilon) is carried as a rational E (E = 1 is epsilon = 0).    *)
(* math.log and 2 ** a are tabulated in thousandths, so count() is a       *)
(* rational with denominator 1000; zero and sign are exact.                *)
(***************************************************************************)
EXTENDS Integers, Sequences, FiniteSets, TLC

VARIABLES
  pcsas,    \* the PCSA objects at hand, a sequence of PCSA records
  mech,     \* a DP mechanism (RRT or GRR object)
  priv,     \* a PrivSketch object
  last,     \* the last call: its name, arguments and outcome
  tracked,  \* history: an item recorded at one of its add() calls on pcsas[1]
  nadd      \* history: add() calls on pcsas[1] that returned, counted 0, 1, 2 = more

vars == <<pcsas, mech, priv, last, tracked, nadd>>

---------------------------------------------------------------------------
(* Bounds *)

\* width of the hash digest (mmh3 yields 32 bits)
HashBits == 3
\* PCSA objects of SpecPCSA have nmap in 1..MaxNmap, length in 1..MaxLength
MaxNmap == 2
MaxLength == 3
\* PCSA objects of SpecUnion have nmap * length <= UnionCells
UnionCells == 3
\* PCSA.union is called on lists of 1..MaxOperands objects
MaxOperands == 2
\* SpecDP: dimension and len(uniques) in 2..MaxDim, card and n in 0..MaxCard
MaxDim == 3
MaxCard == 3
\* Spec: the number of distinct user ids ingested
MaxUsers == 3

None == "None"

---------------------------------------------------------------------------
(* Hash capability *)

\* An item is named by the unsigned HashBits-bit digest mmh3 computes for it.
Items == 0 .. (2^HashBits - 1)

HashFunctions == {"mmh3", "DummyHash"}

\* a faulty capability test: every object passes
AnyObjectPasses(hash_function) == TRUE

\* callable(getattr(hash_function, "hash", None)); "NoHash" is an object
\* without a hash method
HasHashMethod(hash_function) == hash_function \in HashFunctions

\* mmh3.hash(key) returns the digest as a SIGNED integer (signed=True is the
\* default); DummyHash.hash returns 1 for every key.
Hash(hash_function, key) ==
  IF hash_function = "mmh3"
    THEN (IF key >= 2^(HashBits - 1) THEN key - 2^HashBits ELSE key)
    ELSE 1

---------------------------------------------------------------------------
(* Python integer and sequence primitives used by PCSA.add *)

Abs(n) == IF n < 0 THEN -n ELSE n

\* int(a / b) for b > 0: true division, then truncation toward zero
TruncDiv(a, b) == IF a >= 0 THEN a \div b ELSE -((-a) \div b)

\* index of the least-significant 1 bit of n > 0
RECURSIVE Lsb(_)
Lsb(n) == IF n % 2 = 1 THEN 0 ELSE 1 + Lsb(n \div 2)

\* bin(ix)[2:][::-1].find("1"): the binary digits of |ix| read from the low
\* end (a negative ix leaves a trailing "b", which holds no "1"); -1 when
\* ix = 0, whose digit string "0" holds no "1".
Find1(ix) == IF ix = 0 THEN -1 ELSE Lsb(Abs(ix))

\* Python sequence indexing: a negative index counts from the end
PyIndex(i, len) == IF i < 0 THEN i + len ELSE i
IndexOk(i, len) == PyIndex(i, len) >= 0 /\ PyIndex(i, len) < len

---------------------------------------------------------------------------
(* PCSA *)

Rows(nmap) == 0 .. (nmap - 1)
Cols(length) == 0 .. (length - 1)

\* PCSA.__init__ with r = 0: every bit 0
PCSA(hash_function, nmap, length) ==
  [hash_function |-> hash_function, nmap |-> nmap, length |-> length,
   bitmap |-> [row \in Rows(nmap) |-> [col \in Cols(length) |-> 0]],
   r |-> 0]

\* PCSA.__init__ with its guards: [obj |-> the object or None, err |-> message]
PCSAInit(hash_function, nmap, length) ==
  IF nmap < 1 \/ length < 1
    THEN [obj |-> None, err |-> "nmap and length have to be at least 1"]
  ELSE IF ~HasHashMethod(hash_function)
    THEN [obj |-> None,
          err |-> "hash function class needs to have an .hash(key) method"]
  ELSE [obj |-> PCSA(hash_function, nmap, length), err |-> None]

index_alpha(p, item) == Hash(p.hash_function, item) % p.nmap
index_beta(p, item) == Find1(TruncDiv(Hash(p.hash_function, item), p.nmap))

\* a faulty write: the bit is toggled instead of set
FlipBit(bitmap, row, col) == [bitmap EXCEPT ![row][col] = 1 - bitmap[row][col]]

\* the bit add() writes
SetBit(bitmap, row, col) == [bitmap EXCEPT ![row][col] = 1]

\* PCSA.add: [pcsa |-> the object afterwards, err |-> the exception or None]
Add(p, item) ==
  IF ~IndexOk(index_beta(p, item), p.length)
    THEN [pcsa |-> p, err |-> "IndexError"]
    ELSE [pcsa |-> [p EXCEPT !.bitmap =
                      SetBit(p.bitmap, index_alpha(p, item),
                             PyIndex(index_beta(p, item), p.length))],
          err |-> None]

---------------------------------------------------------------------------
(* Exact rationals <<num, den>>, den > 0, in lowest terms, for Python floats *)

RECURSIVE GCD(_, _)
GCD(a, b) == IF b = 0 THEN a ELSE GCD(b, a % b)

Rat(n, d) ==
  LET g == GCD(Abs(n), Abs(d))
      s == IF d < 0 THEN -1 ELSE 1
  IN <<(s * n) \div g, (s * d) \div g>>

RInt(n) == <<n, 1>>
RAdd(x, y) ==
  LET g == GCD(x[2], y[2])
  IN Rat(x[1] * (y[2] \div g) + y[1] * (x[2] \div g), (x[2] \div g) * y[2])
RNeg(x) == <<-x[1], x[2]>>
RSub(x, y) == RAdd(x, RNeg(y))
RMul(x, y) ==
  LET g1 == GCD(Abs(x[1]), y[2])
      g2 == GCD(Abs(y[1]), x[2])
  IN Rat((x[1] \div g1) * (y[1] \div g2), (x[2] \div g2) * (y[2] \div g1))
\* y # 0
RDiv(x, y) == RMul(x, Rat(y[2], y[1]))
RLt(x, y) == x[1] * y[2] < y[1] * x[2]
RIsZero(x) == x[1] = 0
\* int(x): truncation toward zero
RTrunc(x) == IF x[1] >= 0 THEN x[1] \div x[2] ELSE -((-x[1]) \div x[2])

---------------------------------------------------------------------------
(* PCSA.count *)

\* 1000 * math.log(n), rounded, n in 1..5
LnMilli == <<0, 693, 1099, 1386, 1609>>
\* 1000 * 2 ** (f / n), rounded: Root2Milli[n][f + 1], n in 1..5, f in 0..n-1
Root2Milli == << <<1000>>, <<1000, 1414>>, <<1000, 1260, 1587>>,
                 <<1000, 1189, 1414, 1682>>,
                 <<1000, 1149, 1320, 1516, 1741>> >>
\* 1000 * PHI for r = 0 (PHI = 0.773519), rounded
PHIMilli == 774

RECURSIVE SumOver(_, _)
SumOver(f, S) ==
  IF S = {} THEN 0
  ELSE LET x == CHOOSE y \in S : TRUE IN f[x] + SumOver(f, S \ {x})

\* sum_one: the rows whose bit 0 is set
sum_one(p) == SumOver([row \in Rows(p.nmap) |-> p.bitmap[row][0]], Rows(p.nmap))

\* what one row adds to sum_ix: the column of its first 0 bit; the loop adds
\* nothing for a row that holds no 0 bit
FirstZero(p, row) ==
  LET zeros == {col \in Cols(p.length) : p.bitmap[row][col] = 0}
  IN IF zeros = {} THEN 0
     ELSE CHOOSE col \in zeros : \A c \in zeros : col <= c

sum_ix(p) == SumOver([row \in Rows(p.nmap) |-> FirstZero(p, row)], Rows(p.nmap))

\* a faulty regime test: the comparison turned round
HitCountingFlipped(p) == 10 * (p.nmap - sum_one(p)) < 3 * p.nmap

\* k > 0.3 * nmap
HitCounting(p) == 10 * (p.nmap - sum_one(p)) > 3 * p.nmap

\* (-2.0 * nmap) * math.log(k / nmap), in thousandths
HitCountMilli(p) ==
  2 * p.nmap * (LnMilli[p.nmap] - LnMilli[p.nmap - sum_one(p)])

\* nmap * (2 ** (sum_ix / nmap)) / PHI, in thousandths
FMCountMilli(p) ==
  (p.nmap * (2^(sum_ix(p) \div p.nmap)) * Root2Milli[p.nmap][(sum_ix(p) % p.nmap) + 1]
     * 1000) \div PHIMilli

Count(p) ==
  IF HitCounting(p) THEN Rat(HitCountMilli(p), 1000)
                    ELSE Rat(FMCountMilli(p), 1000)

---------------------------------------------------------------------------
(* PCSA.union *)

\* faulty checks: the hash functions are not compared
UnionCheckNoHash(first, pcsa_sketch) ==
  IF first.nmap # pcsa_sketch.nmap
    THEN "sketches have different values for nmap"
  ELSE IF pcsa_sketch.length # first.length
    THEN "sketches have different values for length"
  ELSE None

\* the three compatibility checks, against the first operand; the message of
\* the AttributeError raised, or None
UnionCheck(first, pcsa_sketch) ==
  IF first.nmap # pcsa_sketch.nmap
    THEN "sketches have different values for nmap"
  ELSE IF pcsa_sketch.length # first.length
    THEN "sketches have different values for length"
  ELSE IF pcsa_sketch.hash_function # first.hash_function
    THEN "pcsa objects use different hash functions"
  ELSE None

\* a faulty combination: ^ in place of |
BitXor(a, b) == IF a = b THEN 0 ELSE 1

\* bitarray | bitarray, one position
BitOr(a, b) == IF a = 1 \/ b = 1 THEN 1 ELSE 0

\* union.bitmap[sketch_idx] | pcsa_sketch.bitmap[sketch_idx], every sketch_idx
OrRows(bitmap, pcsa_sketch) ==
  [row \in Rows(pcsa_sketch.nmap) |->
     [col \in Cols(pcsa_sketch.length) |->
        BitOr(bitmap[row][col], pcsa_sketch.bitmap[row][col])]]

\* the loop over the operands from pcsa_idx on; operands are only read
RECURSIVE UnionLoop(_, _, _)
UnionLoop(union, operands, pcsa_idx) ==
  IF pcsa_idx > Len(operands)
    THEN [pcsa |-> union, err |-> None, operands |-> operands]
  ELSE IF UnionCheck(operands[1], operands[pcsa_idx]) # None
    THEN [pcsa |-> None, err |-> UnionCheck(operands[1], operands[pcsa_idx]),
          operands |-> operands]
  ELSE UnionLoop([union EXCEPT !.bitmap = OrRows(union.bitmap, operands[pcsa_idx])],
                 operands, pcsa_idx + 1)

\* PCSA.union: [pcsa |-> the fresh sketch or None, err |-> the exception's
\* message or None, operands |-> the operands afterwards]
PCSAUnion(operands) ==
  IF Len(operands) = 0
    THEN [pcsa |-> None, err |-> "IndexError", operands |-> operands]
    ELSE UnionLoop(PCSA(operands[1].hash_function, operands[1].nmap,
                        operands[1].length),
                   operands, 1)

---------------------------------------------------------------------------
(* SpecPCSA: one PCSA object, constructed with r = 0, under add and count *)

NoCall == [op |-> "init"]

InitPCSA ==
  /\ \E hash_function \in HashFunctions, nmap \in 1..MaxNmap, length \in 1..MaxLength :
       pcsas = <<PCSA(hash_function, nmap, length)>>
  /\ mech = None
  /\ priv = None
  /\ last = NoCall
  /\ tracked = {}
  /\ nadd = 0

\* pcsas[1].add(item)
PcsaAdd(item) ==
  /\ pcsas' = <<Add(pcsas[1], item).pcsa>>
  /\ last' = [op |-> "add", item |-> item, err |-> Add(pcsas[1], item).err,
              again |-> item \in tracked]
  /\ tracked' \in (IF tracked = {} THEN {{}, {item}} ELSE {tracked})
  /\ nadd' = IF Add(pcsas[1], item).err # None THEN nadd
             ELSE IF nadd < 2 THEN nadd + 1 ELSE 2
  /\ UNCHANGED <<mech, priv>>

\* pcsas[1].count()
PcsaCount ==
  /\ last' = [op |-> "count", value |-> Count(pcsas[1])]
  /\ UNCHANGED <<pcsas, mech, priv, tracked, nadd>>

NextPCSA ==
  \/ \E item \in Items : PcsaAdd(item)
  \/ PcsaCount

SpecPCSA == InitPCSA /\ [][NextPCSA]_vars

---------------------------------------------------------------------------
(* SpecUnion: PCSA.union on lists drawn from two PCSA objects whose bits   *)
(* are arbitrary (set through add or, as the tests do, directly)           *)

Shapes == {s \in (1..UnionCells) \X (1..UnionCells) : s[1] * s[2] <= UnionCells}

Bitmaps(nmap, length) == [Rows(nmap) -> [Cols(length) -> {0, 1}]]

\* every PCSA object of a shape: a constructed object with bits set
Sketches(hash_function, nmap, length) ==
  {[PCSA(hash_function, nmap, length) EXCEPT !.bitmap = b] : b \in Bitmaps(nmap, length)}

InitUnion ==
  /\ \E s1 \in Shapes, s2 \in Shapes, h2 \in HashFunctions :
       \E a \in Sketches("mmh3", s1[1], s1[2]), b \in Sketches(h2, s2[1], s2[2]) :
         pcsas = <<a, b>>
  /\ mech = None
  /\ priv = None
  /\ last = NoCall
  /\ tracked = {}
  /\ nadd = 0

\* the lists of 1..MaxOperands operands, as indices into pcsas
OperandLists == UNION {[1..n -> 1..2] : n \in 1..MaxOperands}

\* PCSA.union([pcsas[i] for i in idx])
CallUnion(idx) ==
  LET operands == [i \in 1..Len(idx) |-> pcsas[idx[i]]]
      res == PCSAUnion(operands)
  IN /\ last' = [op |-> "union", idx |-> idx, pcsa |-> res.pcsa, err |-> res.err]
     /\ pcsas' = [j \in 1..2 |->
                    IF \E i \in 1..Len(idx) : idx[i] = j
                      THEN res.operands[CHOOSE i \in 1..Len(idx) : idx[i] = j]
                      ELSE pcsas[j]]
     /\ UNCHANGED <<mech, priv, tracked, nadd>>

NextUnion == \E idx \in OperandLists : CallUnion(idx)

SpecUnion == InitUnion /\ [][NextUnion]_vars

---------------------------------------------------------------------------
(* DP mechanisms RRT and GRR *)

\* math.exp(epsilon) for the epsilons tried: 1/2 is an epsilon < 0, 1 is
\* epsilon = 0, 2 and 5 are epsilons > 0
ExpEps == {<<1, 2>>, <<1, 1>>, <<2, 1>>, <<5, 1>>}
ExpEpsValid == {E \in ExpEps : ~RLt(E, RInt(1))}

\* a faulty prob2 of GRR: the rest shared among dimension values
GRRProb2OverDimension(prob1, dimension) ==
  RDiv(RSub(RInt(1), prob1), RInt(dimension))

\* GRR's prob2: (1 - self.prob1) / (self.dimension - 1)
GRRProb2(prob1, dimension) ==
  RDiv(RSub(RInt(1), prob1), RInt(dimension - 1))

\* RRT.__init__ / GRR.__init__: [obj |-> the mechanism or None, err |-> message]
Mechanism(kind, E, dimension) ==
  IF RLt(E, RInt(1))
    THEN [obj |-> None, err |-> "epsilon has to be positive"]
  ELSE IF dimension <= 1
    THEN [obj |-> None, err |-> "dimension has to be bigger than 1"]
  ELSE IF kind = "RRT"
    THEN [obj |-> [kind |-> kind, E |-> E, dimension |-> dimension,
                   prob2 |-> Rat(1, dimension),
                   prob1 |-> RDiv(RSub(E, RInt(1)), RAdd(E, RInt(dimension - 1)))],
          err |-> None]
  ELSE LET prob1 == RDiv(E, RAdd(E, RInt(dimension - 1)))
       IN [obj |-> [kind |-> kind, E |-> E, dimension |-> dimension,
                    prob1 |-> prob1,
                    prob2 |-> GRRProb2(prob1, dimension)],
           err |-> None]

\* if estimated_cardinality < 0: estimated_cardinality = 0; int(...)
ClampInt(estimated_cardinality) ==
  IF RLt(estimated_cardinality, RInt(0)) THEN 0 ELSE RTrunc(estimated_cardinality)

\* RRT.get_cardinality: (((card/n) - prob2 + (prob1 * prob2)) / prob1) * n
RRTGetCardinality(m, card, n) ==
  IF RIsZero(n) \/ RIsZero(m.prob1)
    THEN [value |-> None, err |-> "ZeroDivisionError"]
    ELSE [value |-> ClampInt(RMul(RDiv(RAdd(RSub(RDiv(card, n), m.prob2),
                                            RMul(m.prob1, m.prob2)),
                                       m.prob1),
                                  n)),
          err |-> None]

\* GRR.get_cardinality: (card - (n * prob2)) / (prob1 - prob2).  prob1 = prob2
\* holds exactly at epsilon = 0; the floats agree for dimension 2, 4 and 5,
\* while for dimension 3 they leave a rounding residue the rationals ignore.
GRRGetCardinality(m, card, n) ==
  IF RIsZero(RSub(m.prob1, m.prob2))
    THEN [value |-> None, err |-> "ZeroDivisionError"]
    ELSE [value |-> ClampInt(RDiv(RSub(card, RMul(n, m.prob2)),
                                  RSub(m.prob1, m.prob2))),
          err |-> None]

GetCardinality(m, card, n) ==
  IF m.kind = "RRT" THEN RRTGetCardinality(m, card, n)
                    ELSE GRRGetCardinality(m, card, n)

Elems(seq) == {seq[i] : i \in 1..Len(seq)}

\* random.random() < prob1 can come out TRUE iff prob1 > 0, FALSE iff prob1 < 1
Draws(m) == {below \in BOOLEAN : IF below THEN RLt(RInt(0), m.prob1)
                                          ELSE RLt(m.prob1, RInt(1))}

\* what the else branch draws from: RRT draws from uniques; GRR removes
\* element from a copy, unique, and then draws from uniques all the same
ForcedChoices(m, element, uniques) == Elems(uniques)

\* what the draws allow once element is known to be in uniques
DpDraw(m, element, uniques) ==
  {[value |-> element, err |-> None, below |-> TRUE] : below \in Draws(m) \cap {TRUE}}
  \cup {[value |-> v, err |-> None, below |-> FALSE] :
          v \in IF FALSE \in Draws(m) THEN ForcedChoices(m, element, uniques) ELSE {}}

\* a faulty dp: the membership test left out
DpNoCheck(m, element, uniques) == DpDraw(m, element, uniques)

\* RRT.dp / GRR.dp: every outcome [value, err, below] the draws allow
Dp(m, element, uniques) ==
  IF element \notin Elems(uniques)
    THEN {[value |-> None, err |-> "Element is not in uniques", below |-> FALSE]}
    ELSE DpDraw(m, element, uniques)

---------------------------------------------------------------------------
(* SpecDP: a constructed mechanism under dp and get_cardinality *)

InitDP ==
  /\ \E kind \in {"RRT", "GRR"}, E \in ExpEpsValid, dimension \in 2..MaxDim :
       mech = Mechanism(kind, E, dimension).obj
  /\ pcsas = <<>>
  /\ priv = None
  /\ last = NoCall
  /\ tracked = {}
  /\ nadd = 0

UniquesLists == {[i \in 1..k |-> i] : k \in 2..MaxDim}

\* mech.dp(element, uniques)
MechDp(element, uniques) ==
  /\ \E out \in Dp(mech, element, uniques) :
       last' = [op |-> "dp", element |-> element, uniques |-> uniques,
                value |-> out.value, err |-> out.err, below |-> out.below]
  /\ UNCHANGED <<pcsas, mech, priv, tracked, nadd>>

\* mech.get_cardinality(card, n)
MechGetCardinality(card, n) ==
  /\ last' = [op |-> "get_cardinality", card |-> card, n |-> n,
              value |-> GetCardinality(mech, RInt(card), RInt(n)).value,
              err |-> GetCardinality(mech, RInt(card), RInt(n)).err]
  /\ UNCHANGED <<pcsas, mech, priv, tracked, nadd>>

NextDP ==
  \/ \E element \in 1..MaxDim, uniques \in UniquesLists : MechDp(element, uniques)
  \/ \E card \in 0..MaxCard, n \in 0..MaxCard : MechGetCardinality(card, n)

SpecDP == InitDP /\ [][NextDP]_vars

---------------------------------------------------------------------------
(* PrivSketch *)

\* Category values: <<"int", n>> is the Python int n, <<"str", n>> is the
\* string of n's decimal digits
IntCat(n) == <<"int", n>>
StrCat(n) == <<"str", n>>

\* int(element): an int is kept, a digit string is parsed
PyInt(element) == <<"int", element[2]>>

\* PrivSketch.__init__ with sketch_var = PCSA: one mechanism of dimension
\* len(uniques), then one PCSA per category
PrivSketch(E, uniques, dp_var, sketch_dict, hash_function) ==
  IF ~HasHashMethod(hash_function)
    THEN [obj |-> None,
          err |-> "hash function class needs to have an .hash(key) method"]
  ELSE IF RLt(E, RInt(1))
    THEN [obj |-> None, err |-> "epsilon has to be positive"]
  ELSE IF ~(Len(uniques) > 0)
    THEN [obj |-> None, err |-> "size of uniques has to be bigger than 0"]
  ELSE IF Mechanism(dp_var, E, Len(uniques)).err # None
    THEN [obj |-> None, err |-> Mechanism(dp_var, E, Len(uniques)).err]
  ELSE IF PCSAInit(hash_function, sketch_dict.nmap, sketch_dict.length).err # None
    THEN [obj |-> None,
          err |-> PCSAInit(hash_function, sketch_dict.nmap, sketch_dict.length).err]
  ELSE [obj |-> [uniques |-> uniques,
                 dp_mechanism |-> Mechanism(dp_var, E, Len(uniques)).obj,
                 sketch |-> [unq \in Elems(uniques) |->
                               PCSAInit(hash_function, sketch_dict.nmap,
                                        sketch_dict.length).obj]],
        err |-> None]

\* PrivSketch.count_dp after dp() returned element:
\* self.sketch[int(element)].add(idnr); the dict lookup raises KeyError for
\* a key the dict does not hold
AddTo(ps, element, idnr) ==
  IF PyInt(element) \notin DOMAIN ps.sketch
    THEN [obj |-> ps, err |-> "KeyError"]
    ELSE [obj |-> [ps EXCEPT !.sketch[PyInt(element)] =
                     Add(ps.sketch[PyInt(element)], idnr).pcsa],
          err |-> Add(ps.sketch[PyInt(element)], idnr).err]

\* n_counts: the sum of count() over the categories
RECURSIVE NCounts(_, _)
NCounts(ps, cats) ==
  IF cats = {} THEN RInt(0)
  ELSE LET cat == CHOOSE c \in cats : TRUE
       IN RAdd(Count(ps.sketch[cat]), NCounts(ps, cats \ {cat}))

\* PrivSketch.get_estimated_cardinality
GetEstimatedCardinality(ps, category) ==
  GetCardinality(ps.dp_mechanism, Count(ps.sketch[category]),
                 NCounts(ps, DOMAIN ps.sketch))

---------------------------------------------------------------------------
(* Spec: a PrivSketch under count_dp and get_estimated_cardinality *)

\* the universes (one of ints, one of digit strings), the sketch parameters
\* and the privacy budgets (epsilon = 0 and one epsilon > 0) a PrivSketch is
\* constructed with
Universes == {<<IntCat(1), IntCat(2)>>, <<StrCat(1), StrCat(2)>>}
\* the categories count_dp is called with: those of the universes and one
\* that no universe holds
Categories == {IntCat(1), IntCat(2), IntCat(3), StrCat(1), StrCat(2)}
SketchDicts == {[nmap |-> 2, length |-> 2], [nmap |-> 1, length |-> 3]}
PrivExpEps == {<<1, 1>>, <<2, 1>>}
\* the user ids ingested: the items of digest 0 .. MaxUsers - 1
Users == 0 .. (MaxUsers - 1)

Init ==
  /\ \E E \in PrivExpEps, uniques \in Universes, dp_var \in {"RRT", "GRR"},
        sketch_dict \in SketchDicts :
       priv = PrivSketch(E, uniques, dp_var, sketch_dict, "mmh3").obj
  /\ pcsas = <<>>
  /\ mech = None
  /\ last = NoCall
  /\ tracked = {}
  /\ nadd = 0

\* priv.count_dp(idnr, category)
CountDp(idnr, category) ==
  /\ \E out \in Dp(priv.dp_mechanism, category, priv.uniques) :
       /\ priv' = IF out.err # None THEN priv
                  ELSE AddTo(priv, out.value, idnr).obj
       /\ last' = [op |-> "count_dp", idnr |-> idnr, category |-> category,
                   element |-> out.value,
                   err |-> IF out.err # None THEN out.err
                           ELSE AddTo(priv, out.value, idnr).err,
                   rerun |-> IF ~(/\ last.op = "count_dp"
                                   /\ last.idnr = idnr
                                   /\ last.category = category)
                               THEN "no"
                             ELSE IF out.err # None THEN "no"
                             ELSE IF last.element = out.value THEN "same"
                             ELSE "other"]
  /\ UNCHANGED <<pcsas, mech, tracked, nadd>>

\* priv.get_estimated_cardinality(category)
Estimate(category) ==
  /\ last' = [op |-> "get_estimated_cardinality", category |-> category,
              value |-> GetEstimatedCardinality(priv, category).value,
              err |-> GetEstimatedCardinality(priv, category).err]
  /\ UNCHANGED <<pcsas, mech, priv, tracked, nadd>>

Next ==
  \/ \E idnr \in Users, category \in Categories : CountDp(idnr, category)
  \/ \E category \in Elems(priv.uniques) : Estimate(category)

Spec == Init /\ [][Next]_vars

---------------------------------------------------------------------------
(* PrivSketch.union *)

\* A collection handed to union: [kind |-> "list", items |-> a sequence of
\* PCSA objects] or [kind |-> "dict", items |-> a function from category
\* values to PCSA objects]
ListOf(ps, cats) ==
  [kind |-> "list", items |-> [i \in 1..Len(cats) |-> ps.sketch[cats[i]]]]
DictOf(ps) == [kind |-> "dict", items |-> ps.sketch]

\* len(pcsas)
PyLen(pcsas_arg) ==
  IF pcsas_arg.kind = "list" THEN Len(pcsas_arg.items)
                             ELSE Cardinality(DOMAIN pcsas_arg.items)

\* pcsas[i] for an int i >= 0: a list is read by position, a dict by the key i
HasSubscript(pcsas_arg, i) ==
  IF pcsas_arg.kind = "list" THEN i < Len(pcsas_arg.items)
                             ELSE IntCat(i) \in DOMAIN pcsas_arg.items
Subscript(pcsas_arg, i) ==
  IF pcsas_arg.kind = "list" THEN pcsas_arg.items[i + 1]
                             ELSE pcsas_arg.items[IntCat(i)]
SubscriptError(pcsas_arg) ==
  IF pcsas_arg.kind = "list" THEN "IndexError" ELSE "KeyError"

\* PCSA.union(pcsas) reading pcsas[0], then pcsas[pcsa_idx] for pcsa_idx in
\* range(len(pcsas)): [pcsa |-> the fresh sketch or None, err |-> the
\* exception or None].  The operands are only read, and every row of the
\* result is the new bitarray that | returns.
PCSAUnionOf(pcsas_arg) ==
  IF ~HasSubscript(pcsas_arg, 0)
    THEN [pcsa |-> None, err |-> SubscriptError(pcsas_arg)]
  ELSE LET missing == {i \in 0..(PyLen(pcsas_arg) - 1) : ~HasSubscript(pcsas_arg, i)}
           stop == IF missing = {} THEN PyLen(pcsas_arg)
                   ELSE CHOOSE i \in missing : \A j \in missing : i <= j
           res == PCSAUnion([i \in 1..stop |-> Subscript(pcsas_arg, i - 1)])
       IN IF res.err # None THEN [pcsa |-> None, err |-> res.err]
          ELSE IF stop < PyLen(pcsas_arg)
            THEN [pcsa |-> None, err |-> SubscriptError(pcsas_arg)]
          ELSE [pcsa |-> res.pcsa, err |-> None]

\* PrivSketch.union: self.sketch_var.union(sketches), sketch_var = PCSA
PrivSketchUnion(ps, sketches) == PCSAUnionOf(sketches)

---------------------------------------------------------------------------
(* SpecPrivUnion: a PrivSketch whose sketches are added to, union() over   *)
(* lists of its sketches and over its own mapping self.sketch, and adds to *)
(* the sketch union() returned (kept as pcsas[1])                          *)

\* the universes: one whose categories are 1, 2 and one whose categories
\* are 0, 1
UnionUniverses == {<<IntCat(1), IntCat(2)>>, <<IntCat(0), IntCat(1)>>}

InitPrivUnion ==
  /\ \E uniques \in UnionUniverses, sketch_dict \in SketchDicts :
       priv = PrivSketch(<<5, 1>>, uniques, "GRR", sketch_dict, "mmh3").obj
  /\ pcsas = <<>>
  /\ mech = None
  /\ last = NoCall
  /\ tracked = {}
  /\ nadd = 0

\* priv.sketch[category].add(idnr)
SketchAdd(category, idnr) ==
  /\ priv' = [priv EXCEPT !.sketch[category] = Add(priv.sketch[category], idnr).pcsa]
  /\ last' = [op |-> "sketch_add", category |-> category, idnr |-> idnr,
              err |-> Add(priv.sketch[category], idnr).err]
  /\ UNCHANGED <<pcsas, mech, tracked, nadd>>

\* the lists of 1..MaxOperands categories of the universe
CategoryLists(ps) == UNION {[1..n -> Elems(ps.uniques)] : n \in 1..MaxOperands}

\* pcsas[1] = priv.union(sketches)
PrivUnion(arg, sketches) ==
  /\ pcsas' = IF PrivSketchUnion(priv, sketches).err # None THEN pcsas
              ELSE <<PrivSketchUnion(priv, sketches).pcsa>>
  /\ last' = [op |-> "union", arg |-> arg, operands |-> sketches,
              err |-> PrivSketchUnion(priv, sketches).err]
  /\ UNCHANGED <<priv, mech, tracked, nadd>>

\* pcsas[1].add(idnr), once union() has returned a sketch
ResultAdd(idnr) ==
  /\ Len(pcsas) = 1
  /\ pcsas' = <<Add(pcsas[1], idnr).pcsa>>
  /\ last' = [op |-> "result_add", idnr |-> idnr, err |-> Add(pcsas[1], idnr).err]
  /\ UNCHANGED <<priv, mech, tracked, nadd>>

NextPrivUnion ==
  \/ \E category \in Elems(priv.uniques), idnr \in Users : SketchAdd(category, idnr)
  \/ \E cats \in CategoryLists(priv) : PrivUnion("list", ListOf(priv, cats))
  \/ PrivUnion("self.sketch", DictOf(priv))
  \/ \E idnr \in Users : ResultAdd(idnr)

SpecPrivUnion == InitPrivUnion /\ [][NextPrivUnion]_vars

---------------------------------------------------------------------------
(* SpecInit: the constructors of PCSA, RRT, GRR and PrivSketch applied to   *)
(* parameters inside and outside their guards; last holds the object made  *)

\* the objects passed as hash_function
HashCapabilities == HashFunctions \cup {"NoHash"}
\* the lists passed as uniques
InitUniverses ==
  {<<>>, <<IntCat(1)>>, <<IntCat(1), IntCat(2)>>, <<StrCat(1), StrCat(2)>>}
\* the dictionaries passed as sketch_dict
InitSketchDicts == [nmap : 0..MaxNmap, length : 0..MaxLength]

InitInit ==
  /\ pcsas = <<>>
  /\ mech = None
  /\ priv = None
  /\ last = NoCall
  /\ tracked = {}
  /\ nadd = 0

\* PCSA(hash_function, nmap, length)
NewPCSA(hash_function, nmap, length) ==
  /\ last' = [op |-> "PCSA", hash_function |-> hash_function, nmap |-> nmap,
              length |-> length,
              obj |-> PCSAInit(hash_function, nmap, length).obj,
              err |-> PCSAInit(hash_function, nmap, length).err]
  /\ UNCHANGED <<pcsas, mech, priv, tracked, nadd>>

\* RRT(epsilon, dimension) / GRR(epsilon, dimension)
NewMechanism(kind, E, dimension) ==
  /\ last' = [op |-> kind, E |-> E, dimension |-> dimension,
              obj |-> Mechanism(kind, E, dimension).obj,
              err |-> Mechanism(kind, E, dimension).err]
  /\ UNCHANGED <<pcsas, mech, priv, tracked, nadd>>

\* PrivSketch(epsilon, uniques, dp_var, PCSA, sketch_dict, hash_function)
NewPrivSketch(E, uniques, dp_var, sketch_dict, hash_function) ==
  /\ last' = [op |-> "PrivSketch", E |-> E, uniques |-> uniques,
              dp_var |-> dp_var, sketch_dict |-> sketch_dict,
              hash_function |-> hash_function,
              obj |-> PrivSketch(E, uniques, dp_var, sketch_dict, hash_function).obj,
              err |-> PrivSketch(E, uniques, dp_var, sketch_dict, hash_function).err]
  /\ UNCHANGED <<pcsas, mech, priv, tracked, nadd>>

NextInit ==
  \/ \E hash_function \in HashCapabilities, nmap \in 0..MaxNmap, length \in 0..MaxLength :
       NewPCSA(hash_function, nmap, length)
  \/ \E kind \in {"RRT", "GRR"}, E \in ExpEps, dimension \in 0..MaxDim :
       NewMechanism(kind, E, dimension)
  \/ \E E \in ExpEps, uniques \in InitUniverses, dp_var \in {"RRT", "GRR"},
        sketch_dict \in InitSketchDicts, hash_function \in HashCapabilities :
       NewPrivSketch(E, uniques, dp_var, sketch_dict, hash_function)

SpecInit == InitInit /\ [][NextInit]_vars

---------------------------------------------------------------------------
(* Claims about PCSA.add and PCSA.count, under SpecPCSA *)

\* the hash value read as an unsigned HashBits-bit integer, and the row,
\* tail and bit index the specification derives from it
UnsignedHash(p, item) == Hash(p.hash_function, item) % (2^HashBits)
SpecRow(p, item) == UnsignedHash(p, item) % p.nmap
SpecTail(p, item) == UnsignedHash(p, item) \div p.nmap
HasTarget(p, item) ==
  SpecTail(p, item) > 0 /\ Lsb(SpecTail(p, item)) < p.length

AnyBitSet(p) == \E row \in Rows(p.nmap), col \in Cols(p.length) : p.bitmap[row][col] = 1
BitZeroSet(p) == \E row \in Rows(p.nmap) : p.bitmap[row][0] = 1

\* C1: whenever the unsigned hash of item has its lowest 1 bit of tail at an
\* index j < length, add(item) sets bitmap[row][j] and changes no other bit.
C1_AddSetsUnsignedTargetBit ==
  [][\A item \in Items :
       (/\ last'.op = "add"
        /\ last'.item = item
        /\ HasTarget(pcsas[1], item))
       => pcsas'[1].bitmap =
            SetBit(pcsas[1].bitmap, SpecRow(pcsas[1], item),
                   Lsb(SpecTail(pcsas[1], item)))]_vars

\* C2: when tail is 0 or its lowest 1 bit lies at an index >= length,
\* add(item) returns without raising and leaves every bit unchanged.
C2_AddWithoutTargetIsNoOp ==
  [][\A item \in Items :
       (/\ last'.op = "add"
        /\ last'.item = item
        /\ ~HasTarget(pcsas[1], item))
       => (last'.err = None /\ pcsas' = pcsas)]_vars

\* C6 as stated: count() is 0 on the constructed sketch and strictly
\* positive after a single add of any item.
C6_SingleAddCountPositive ==
  last.op = "count" =>
    /\ nadd = 0 => RIsZero(last.value)
    /\ nadd = 1 => RLt(RInt(0), last.value)

\* C6 amended: count() is 0 while nothing was added; after a single add it
\* is strictly positive exactly when the add set bit 0 of a row, and is
\* still 0 when the add set a bit elsewhere.
C6_CountPositiveIffBitZero ==
  last.op = "count" =>
    /\ nadd = 0 => RIsZero(last.value)
    /\ nadd = 1 => IF BitZeroSet(pcsas[1]) THEN RLt(RInt(0), last.value)
                                          ELSE RIsZero(last.value)

\* a count() of 0 after one add that set a bit outside column 0
C6_Witness ==
  /\ last.op = "count"
  /\ nadd = 1
  /\ AnyBitSet(pcsas[1])
  /\ ~BitZeroSet(pcsas[1])
  /\ RIsZero(last.value)

\* C7: no call turns a 1 bit into 0, and add(x) for an x added before
\* leaves the whole bitmap as it was.
C7_AddIdempotentNoShrink ==
  [][/\ \A row \in Rows(pcsas[1].nmap), col \in Cols(pcsas[1].length) :
          pcsas[1].bitmap[row][col] = 1 => pcsas'[1].bitmap[row][col] = 1
     /\ (last'.op = "add" /\ last'.again) => pcsas' = pcsas]_vars

\* a repeated add(x) that returned, on a sketch that holds x's bit
C7_Witness ==
  /\ last.op = "add"
  /\ last.again
  /\ last.err = None
  /\ nadd = 2
  /\ AnyBitSet(pcsas[1])

\* the row statistic of the specification: the index of the first 0 bit of
\* the row, and length for a row whose bits are all 1
SpecR(p, row) ==
  LET zeros == {col \in Cols(p.length) : p.bitmap[row][col] = 0}
  IN IF zeros = {} THEN p.length
     ELSE CHOOSE col \in zeros : \A c \in zeros : col <= c

SpecSumR(p) == SumOver([row \in Rows(p.nmap) |-> SpecR(p, row)], Rows(p.nmap))

\* the number of rows whose bit 0 is 0
SpecK(p) == Cardinality({row \in Rows(p.nmap) : p.bitmap[row][0] = 0})

\* C15: count() is the hit-counting value -2 * nmap * ln(k / nmap) exactly
\* when k > 0.3 * nmap; otherwise it is nmap * 2^A / PHI with A = (sum of
\* R_row) / nmap, R_row the index of the first 0 bit of the row and length
\* for a row whose bits are all 1.
C15_CountRegimeAndRowStatistic ==
  last.op = "count" =>
    LET p == pcsas[1]
    IN IF 10 * SpecK(p) > 3 * p.nmap
         THEN last.value =
                Rat(2 * p.nmap * (LnMilli[p.nmap] - LnMilli[SpecK(p)]), 1000)
         ELSE last.value =
                Rat((p.nmap * (2^(SpecSumR(p) \div p.nmap))
                       * Root2Milli[p.nmap][(SpecSumR(p) % p.nmap) + 1] * 1000)
                      \div PHIMilli,
                    1000)

---------------------------------------------------------------------------
(* Claims about PCSA.union, under SpecUnion *)

SameParameters(a, b) ==
  a.nmap = b.nmap /\ a.length = b.length /\ a.hash_function = b.hash_function

\* the operands of the last union call
LastOperands(objs, idx) == [i \in 1..Len(idx) |-> objs[idx[i]]]

\* C4: the union of compatible sketches has bit (row, j) set exactly when
\* an operand has it set; union([a]) = a, union([a, b]) = union([b, a]),
\* union([a, a]) = a, union([union([a, b]), c]) = union([a, union([b, c])]).
C4_UnionIsBitwiseOr ==
  /\ (/\ last.op = "union"
      /\ \A i \in 1..Len(last.idx) :
           SameParameters(pcsas[last.idx[1]], pcsas[last.idx[i]]))
     => /\ last.err = None
        /\ SameParameters(last.pcsa, pcsas[last.idx[1]])
        /\ \A row \in Rows(last.pcsa.nmap), col \in Cols(last.pcsa.length) :
             last.pcsa.bitmap[row][col] = 1
               <=> \E i \in 1..Len(last.idx) :
                     pcsas[last.idx[i]].bitmap[row][col] = 1
  /\ (Len(pcsas) = 2 /\ SameParameters(pcsas[1], pcsas[2]))
     => LET a == pcsas[1]
            b == pcsas[2]
            U(operands) == PCSAUnion(operands).pcsa
        IN /\ U(<<a>>).bitmap = a.bitmap
           /\ U(<<a, b>>) = U(<<b, a>>)
           /\ U(<<a, a>>) = a
           /\ \A c \in Sketches(a.hash_function, a.nmap, a.length) :
                U(<<U(<<a, b>>), c>>) = U(<<a, U(<<b, c>>)>>)

\* a union of two compatible sketches, each holding a bit the other lacks
C4_Witness ==
  /\ last.op = "union"
  /\ last.idx = <<1, 2>>
  /\ last.err = None
  /\ \E row \in Rows(pcsas[1].nmap), col \in Cols(pcsas[1].length) :
       pcsas[1].bitmap[row][col] = 1 /\ pcsas[2].bitmap[row][col] = 0
  /\ \E row \in Rows(pcsas[1].nmap), col \in Cols(pcsas[1].length) :
       pcsas[1].bitmap[row][col] = 0 /\ pcsas[2].bitmap[row][col] = 1

\* C5: when two operands differ in nmap, length or hash function, union
\* raises, with a message naming a parameter in which operands differ,
\* returns no sketch and leaves the operands as they were.
C5_UnionRejectsIncompatible ==
  [][last'.op = "union" =>
       LET operands == LastOperands(pcsas, last'.idx)
           I == 1..Len(operands)
       IN (\E i, j \in I : ~SameParameters(operands[i], operands[j]))
          => /\ \/ /\ last'.err = "sketches have different values for nmap"
                   /\ \E i, j \in I : operands[i].nmap # operands[j].nmap
                \/ /\ last'.err = "sketches have different values for length"
                   /\ \E i, j \in I : operands[i].length # operands[j].length
                \/ /\ last'.err = "pcsa objects use different hash functions"
                   /\ \E i, j \in I :
                        operands[i].hash_function # operands[j].hash_function
             /\ last'.pcsa = None
             /\ pcsas' = pcsas]_vars

\* a union refused for the hash functions alone, the operands holding bits
C5_Witness ==
  /\ last.op = "union"
  /\ last.err = "pcsa objects use different hash functions"
  /\ last.pcsa = None
  /\ AnyBitSet(pcsas[1])
  /\ AnyBitSet(pcsas[2])

---------------------------------------------------------------------------
(* Claims about the DP mechanisms, under SpecDP *)

\* C3: when the draw is not below prob_true, GRR returns an element of the
\* universe other than the true value.
C3_GRRForcedValueDiffers ==
  (/\ last.op = "dp"
   /\ mech.kind = "GRR"
   /\ last.err = None
   /\ ~last.below)
  => last.value \in Elems(last.uniques) \ {last.element}

\* C8: get_cardinality(c, n) returns an integer >= 0 without raising, for
\* RRT and GRR, every c >= 0 and every n >= 0.
C8_InvertTotalNonNegative ==
  last.op = "get_cardinality" => (last.err = None /\ last.value \in Nat)

\* C13 as stated: for GRR prob1 + (dimension - 1) * prob2 = 1 and for RRT
\* prob1 + dimension * prob2 = 1, with RRT's prob2 = 1 / dimension and
\* prob1 = (E - 1) / (E + dimension - 1), GRR's prob1 = E / (E + dimension - 1)
\* and prob2 = (1 - prob1) / (dimension - 1), E = e^epsilon.
C13_ProbabilitySums ==
  LET d == mech.dimension
      denominator == RAdd(mech.E, RInt(d - 1))
  IN /\ mech.kind = "GRR" =>
          /\ mech.prob1 = RDiv(mech.E, denominator)
          /\ mech.prob2 = RDiv(RSub(RInt(1), mech.prob1), RInt(d - 1))
          /\ RAdd(mech.prob1, RMul(RInt(d - 1), mech.prob2)) = RInt(1)
     /\ mech.kind = "RRT" =>
          /\ mech.prob2 = Rat(1, d)
          /\ mech.prob1 = RDiv(RSub(mech.E, RInt(1)), denominator)
          /\ RAdd(mech.prob1, RMul(RInt(d), mech.prob2)) = RInt(1)

\* C13 amended: the probabilities are as stated; for GRR
\* prob1 + (dimension - 1) * prob2 = 1; for RRT dimension * prob2 = 1, so
\* prob1 + dimension * prob2 = 1 + prob1, which is 1 only when epsilon = 0.
C13_ProbabilitySumsRRTForcedOnly ==
  LET d == mech.dimension
      denominator == RAdd(mech.E, RInt(d - 1))
  IN /\ mech.kind = "GRR" =>
          /\ mech.prob1 = RDiv(mech.E, denominator)
          /\ mech.prob2 = RDiv(RSub(RInt(1), mech.prob1), RInt(d - 1))
          /\ RAdd(mech.prob1, RMul(RInt(d - 1), mech.prob2)) = RInt(1)
     /\ mech.kind = "RRT" =>
          /\ mech.prob2 = Rat(1, d)
          /\ mech.prob1 = RDiv(RSub(mech.E, RInt(1)), denominator)
          /\ RMul(RInt(d), mech.prob2) = RInt(1)
          /\ RAdd(mech.prob1, RMul(RInt(d), mech.prob2)) = RAdd(RInt(1), mech.prob1)
          /\ (RAdd(mech.prob1, RMul(RInt(d), mech.prob2)) = RInt(1)) <=> (mech.E = RInt(1))

\* an RRT with epsilon > 0 that reported the true value on its prob1 draw
C13_Witness ==
  /\ mech.kind = "RRT"
  /\ RLt(RInt(1), mech.E)
  /\ RLt(RInt(0), mech.prob1)
  /\ last.op = "dp"
  /\ last.err = None
  /\ last.below

\* C12: a mechanism with epsilon = 0 is constructed without error, and on
\* it dp (of an element of uniques) and get_cardinality (here with n >= 1)
\* return a value without raising.
C12_EpsilonZeroOperates ==
  /\ \A kind \in {"RRT", "GRR"}, dimension \in 2..MaxDim :
       Mechanism(kind, RInt(1), dimension).err = None
  /\ mech.E = RInt(1) =>
       /\ (last.op = "dp" /\ last.element \in Elems(last.uniques))
            => (last.err = None /\ last.value \in Elems(last.uniques))
       /\ (last.op = "get_cardinality" /\ last.n >= 1)
            => (last.err = None /\ last.value \in Nat)

---------------------------------------------------------------------------
(* Claims about construction, under SpecInit *)

\* the call c fails with one of the messages msgs and yields no object
Refused(c, msgs) == c.err \in msgs /\ c.obj = None
\* the call c returns without an error (c.obj is then the object made)
Constructed(c) == c.err = None

\* PCSA: refused for nmap < 1, length < 1 or a missing hash method, with the
\* message of a guard that applies; constructed, all bits 0, otherwise
PCSAGuards(c) ==
  IF c.nmap < 1 \/ c.length < 1 \/ c.hash_function = "NoHash"
    THEN Refused(c,
           (IF c.nmap < 1 \/ c.length < 1
              THEN {"nmap and length have to be at least 1"} ELSE {})
           \cup (IF c.hash_function = "NoHash"
                   THEN {"hash function class needs to have an .hash(key) method"}
                   ELSE {}))
    ELSE /\ Constructed(c)
         /\ c.obj.nmap = c.nmap /\ c.obj.length = c.length
         /\ c.obj.hash_function = c.hash_function
         /\ ~AnyBitSet(c.obj)

\* RRT, GRR: refused for epsilon < 0 or dimension < 2; constructed otherwise
MechanismGuards(c) ==
  IF RLt(c.E, RInt(1)) \/ c.dimension < 2
    THEN Refused(c,
           (IF RLt(c.E, RInt(1)) THEN {"epsilon has to be positive"} ELSE {})
           \cup (IF c.dimension < 2
                   THEN {"dimension has to be bigger than 1"} ELSE {}))
    ELSE Constructed(c) /\ c.obj.kind = c.op /\ c.obj.dimension = c.dimension

\* the messages of the PrivSketch guards that apply to the call c
PrivSketchMessages(c) ==
  (IF c.hash_function = "NoHash"
     THEN {"hash function class needs to have an .hash(key) method"} ELSE {})
  \cup (IF RLt(c.E, RInt(1)) THEN {"epsilon has to be positive"} ELSE {})
  \cup (IF Len(c.uniques) = 0
          THEN {"size of uniques has to be bigger than 0"} ELSE {})

\* the messages of the guards of the mechanism and of the PCSA that the
\* PrivSketch constructor makes, that apply to the call c
PartMessages(c) ==
  (IF Len(c.uniques) < 2 THEN {"dimension has to be bigger than 1"} ELSE {})
  \cup (IF c.sketch_dict.nmap < 1 \/ c.sketch_dict.length < 1
          THEN {"nmap and length have to be at least 1"} ELSE {})

\* C14 as stated: PCSA, RRT and GRR are refused exactly under their guards;
\* a PrivSketch is refused, with the message of a guard that applies, when
\* the universe is empty, epsilon < 0 or the hash method is missing, and is
\* constructed for every other combination of parameters.
C14_ConstructionGuards ==
  /\ last.op = "PCSA" => PCSAGuards(last)
  /\ last.op \in {"RRT", "GRR"} => MechanismGuards(last)
  /\ last.op = "PrivSketch" =>
       IF PrivSketchMessages(last) # {}
         THEN Refused(last, PrivSketchMessages(last))
         ELSE Constructed(last)

\* C14 amended: as stated for PCSA, RRT and GRR; a PrivSketch is refused
\* also when a guard of the mechanism or of the PCSA it constructs applies,
\* i.e. for a universe of one category, nmap < 1 or length < 1, and is
\* constructed, with one PCSA per category, otherwise.
C14_ConstructionGuardsOfParts ==
  /\ last.op = "PCSA" => PCSAGuards(last)
  /\ last.op \in {"RRT", "GRR"} => MechanismGuards(last)
  /\ last.op = "PrivSketch" =>
       IF PrivSketchMessages(last) # {}
         THEN Refused(last, PrivSketchMessages(last))
       ELSE IF PartMessages(last) # {}
         THEN Refused(last, PartMessages(last))
       ELSE /\ Constructed(last)
            /\ DOMAIN last.obj.sketch = Elems(last.uniques)
            /\ last.obj.dp_mechanism.dimension = Len(last.uniques)

\* a PrivSketch over a universe of one category, refused by the mechanism
C14_Witness ==
  /\ last.op = "PrivSketch"
  /\ Len(last.uniques) = 1
  /\ PrivSketchMessages(last) = {}
  /\ last.err = "dimension has to be bigger than 1"

---------------------------------------------------------------------------
(* Claims about PrivSketch, under Spec *)

\* C9: get_estimated_cardinality(category) returns, without error, the
\* integer >= 0 that get_cardinality gives for the category's count and the
\* sum of all counts.
C9_EstimateTotalNonNegative ==
  last.op = "get_estimated_cardinality" =>
    /\ last.err = None
    /\ last.value \in Nat
    /\ last.value = GetCardinality(priv.dp_mechanism,
                                   Count(priv.sketch[last.category]),
                                   NCounts(priv, DOMAIN priv.sketch)).value

\* C10 as stated: count_dp of the (idnr, category) just ingested leaves every
\* sketch as it was, whatever the randomized response.
C10_IngestIdempotent ==
  [][(/\ last.op = "count_dp"
      /\ last'.op = "count_dp"
      /\ last'.idnr = last.idnr
      /\ last'.category = last.category)
     => priv'.sketch = priv.sketch]_vars

\* C10 amended: count_dp of the (idnr, category) just ingested leaves every
\* sketch as it was whenever the randomized response reports the category
\* it reported the first time.
C10_IngestIdempotentSameReport ==
  [][(/\ last.op = "count_dp"
      /\ last'.op = "count_dp"
      /\ last'.idnr = last.idnr
      /\ last'.category = last.category
      /\ last'.element = last.element)
     => priv'.sketch = priv.sketch]_vars

\* a second count_dp of the same pair, reported as the first, that returned
C10_Witness ==
  /\ last.op = "count_dp"
  /\ last.rerun = "same"
  /\ last.err = None
  /\ AnyBitSet(priv.sketch[PyInt(last.element)])

\* the positions at which two bitmaps of one shape differ
ChangedBits(p, q) ==
  {rc \in Rows(p.nmap) \X Cols(p.length) :
     p.bitmap[rc[1]][rc[2]] # q.bitmap[rc[1]][rc[2]]}

\* C16: count_dp(idnr, category) with category in the universe gets a
\* reported value of the universe from dp, adds idnr to the sketch bound to
\* the reported value, changing at most one bit of it, and leaves the other
\* sketches unchanged; every category of the universe has one PCSA, all
\* with the same nmap, length, hash function and r.
C16_IngestAddsToReportedSketch ==
  [][/\ (last'.op = "count_dp" /\ last'.category \in Elems(priv.uniques))
        => /\ last'.element \in Elems(priv.uniques)
           /\ last'.err = Add(priv.sketch[last'.element], last'.idnr).err
           /\ priv'.sketch =
                [priv.sketch EXCEPT ![last'.element] =
                   Add(priv.sketch[last'.element], last'.idnr).pcsa]
           /\ Cardinality(ChangedBits(priv.sketch[last'.element],
                                      priv'.sketch[last'.element])) <= 1
     /\ DOMAIN priv'.sketch = Elems(priv'.uniques)
     /\ \A c1, c2 \in DOMAIN priv'.sketch :
          /\ SameParameters(priv'.sketch[c1], priv'.sketch[c2])
          /\ priv'.sketch[c1].r = priv'.sketch[c2].r]_vars

AnySketchBitSet(ps) == \E cat \in DOMAIN ps.sketch : AnyBitSet(ps.sketch[cat])

\* C11: dp of RRT and of GRR raises 'Element is not in uniques' for every
\* element outside uniques, whatever the draws; count_dp with a category
\* outside the universe raises that error and leaves every sketch unchanged.
C11_UnknownValueRejected ==
  [][/\ \A category \in Categories \ Elems(priv.uniques) :
          \A out \in Dp(priv.dp_mechanism, category, priv.uniques) :
            out.err = "Element is not in uniques" /\ out.value = None
     /\ (last'.op = "count_dp" /\ last'.category \notin Elems(priv.uniques))
        => /\ last'.err = "Element is not in uniques"
           /\ priv' = priv]_vars

\* a count_dp refused for its category, on a PrivSketch that holds bits
C11_Witness ==
  /\ last.op = "count_dp"
  /\ last.category \notin Elems(priv.uniques)
  /\ last.err = "Element is not in uniques"
  /\ AnySketchBitSet(priv)

---------------------------------------------------------------------------
(* Claims about PrivSketch.union, under SpecPrivUnion *)

\* the sketches a collection holds
SketchesOf(sketches) ==
  IF sketches.kind = "list" THEN Elems(sketches.items)
  ELSE {sketches.items[cat] : cat \in DOMAIN sketches.items}

\* C17: union(sketches), for a list of sketches and for the PrivSketch's own
\* mapping self.sketch, returns a PCSA with the operands' nmap, length and
\* hash function whose bitmap is the OR of all sketches supplied, and
\* modifies no operand; a later add to the result leaves the operands
\* unchanged, and a later add to an operand leaves the result unchanged.
C17_UnionOverSuppliedSketches ==
  [][/\ last'.op = "union" =>
          /\ last'.err = None
          /\ \A p \in SketchesOf(last'.operands) : SameParameters(pcsas'[1], p)
          /\ \A row \in Rows(pcsas'[1].nmap), col \in Cols(pcsas'[1].length) :
               pcsas'[1].bitmap[row][col] = 1
                 <=> \E p \in SketchesOf(last'.operands) : p.bitmap[row][col] = 1
          /\ priv' = priv
     /\ last'.op = "result_add" => priv' = priv
     /\ last'.op = "sketch_add" => pcsas' = pcsas]_vars

====
